---------------------------- MODULE Spec2Model ----------------------------
(***************************************************************************)
(* Model of the question-generation pipeline:                              *)
(*   text_chunker.py        TextChunker (chunk_text and its helpers)       *)
(*   question_generator.py  QuestionGenerator (parse_response, merge)      *)
(*   main.py                main (single-chunk / multi-chunk dispatch)     *)
(*   document_processor.py  DocumentProcessor (clean_text and its stages)  *)
(*                                                                         *)
(* A Python str is a sequence of one-character strings.                    *)
(***************************************************************************)
EXTENDS Naturals, Integers, Sequences, FiniteSets, TLC

VARIABLES
    pc,          \* position of the run
    text,        \* the text handed to TextChunker.chunk_text
    max_tokens,  \* TextChunker.max_tokens
    chunks,      \* the list chunk_text returned (strings)
    chunkUnits,  \* history: for each chunk, the list it was joined from
    response_text, \* the text handed to QuestionGenerator.parse_response
    questions,   \* the question set returned: [factual, conceptual]
    all_questions, \* generate_from_chunks: the lists extended chunk by chunk
    results,     \* history: what generate_from_text returned for each chunk
    calls,       \* history: the generation calls issued, in order
    output,      \* what format_output lists
    raw_text,    \* DocumentProcessor.raw_text
    stage,       \* the stage of clean_text that was applied to raw_text
    stage_text,  \* what that stage returned
    cleaned_text, \* DocumentProcessor.cleaned_text
    recleaned_text \* cleaned_text of a second run on the first one's result

vars == <<pc, text, max_tokens, chunks, chunkUnits, response_text, questions,
          all_questions, results, calls, output, raw_text, stage, stage_text,
          cleaned_text, recleaned_text>>

chunkerVars == <<text, max_tokens, chunks, chunkUnits>>
mergeVars == <<all_questions, results, calls, output>>
cleanerVars == <<raw_text, stage, stage_text, cleaned_text, recleaned_text>>

\* ----------------------------------------------------------------- bounds
MaxPieces == 6          \* a chunker input is at most this many pieces long
MaxTokensBound == 1     \* max_tokens ranges over 0..MaxTokensBound
MaxParagraphs == 3      \* a document of a pipeline run has at most this many paragraphs
MaxLines == 3           \* a parser input holds at most this many content lines
MaxCleanLines == 3      \* a cleaner input holds at most this many lines

\* ---------------------------------------------------------------- strings
\* Every sequence over S of length at most n.
SeqsUpTo(S, n) == UNION {[1..k -> S] : k \in 0..n}

RECURSIVE Flatten(_)
Flatten(ss) == IF ss = <<>> THEN <<>> ELSE Head(ss) \o Flatten(Tail(ss))

\* sep.join(units)
RECURSIVE Join(_, _)
Join(units, sep) ==
    IF units = <<>> THEN <<>>
    ELSE IF Len(units) = 1 THEN units[1]
    ELSE units[1] \o sep \o Join(Tail(units), sep)

Last(s) == s[Len(s)]

\* str.isspace for the characters of the model (also the regex class \s)
IsSpace(c) == c \in {" ", "\n", "\t"}

\* the places of s that hold no whitespace
Inked(s) == {i \in 1..Len(s) : ~IsSpace(s[i])}

Min(S) == CHOOSE i \in S : \A j \in S : i <= j
Max(S) == CHOOSE i \in S : \A j \in S : i >= j

\* str.lstrip()
LStrip(s) == IF Inked(s) = {} THEN <<>> ELSE SubSeq(s, Min(Inked(s)), Len(s))

\* str.rstrip()
RStrip(s) == IF Inked(s) = {} THEN <<>> ELSE SubSeq(s, 1, Max(Inked(s)))

\* str.strip()
Strip(s) == RStrip(LStrip(s))

\* ---------------------------------------------------------------- chunker
\* The pieces chunker inputs are built from: a word, a word that ends a
\* sentence, a blank, a line break (two of them make a blank line).
ChunkPieces == {<<"a", "a">>, <<"a", "a", ".">>, <<" ">>, <<"\n">>}
ChunkTexts == {Flatten(ps) : ps \in SeqsUpTo(ChunkPieces, MaxPieces)}

ParaSep == <<"\n", "\n">>
SentSep == <<" ">>

estimate_tokens(t) == Len(t) \div 4

max_chars(mt) == mt * 4

\* text.split('\n\n'): left to right, non-overlapping
RECURSIVE SplitBlankLines(_, _, _)
SplitBlankLines(rest, cur, acc) ==
    IF rest = <<>> THEN Append(acc, cur)
    ELSE IF Len(rest) >= 2 /\ rest[1] = "\n" /\ rest[2] = "\n"
         THEN SplitBlankLines(SubSeq(rest, 3, Len(rest)), <<>>, Append(acc, cur))
         ELSE SplitBlankLines(Tail(rest), Append(cur, Head(rest)), acc)

IsTerminator(c) == c \in {".", "!", "?"}

\* re.split(r'(?<=[.!?])\s+', paragraph): a run of whitespace right after a
\* terminator is a separator and is removed whole
RECURSIVE SplitSentences(_, _, _)
SplitSentences(rest, cur, acc) ==
    IF rest = <<>> THEN Append(acc, cur)
    ELSE IF cur # <<>> /\ IsTerminator(Last(cur)) /\ IsSpace(Head(rest))
         THEN SplitSentences(LStrip(rest), <<>>, Append(acc, cur))
         ELSE SplitSentences(Tail(rest), Append(cur, Head(rest)), acc)

\* The units of a chunk and the separator they are joined with.
Chunk(units, sep) == [units |-> units, sep |-> sep]

\* the append of a closed buffer: chunks.append(sep.join(current_chunk))
Flush(out, current_chunk, sep) == Append(out, Chunk(current_chunk, sep))

\* the seed of the next buffer after a flush: [current_chunk[-1]]
OverlapSeed(current_chunk) == <<Last(current_chunk)>>

\* the loop of _split_long_paragraph over the sentences left
RECURSIVE SentenceLoop(_, _, _, _, _)
SentenceLoop(sentences, out, current_chunk, current_length, mc) ==
    IF sentences = <<>>
    THEN IF current_chunk # <<>> THEN Flush(out, current_chunk, SentSep) ELSE out
    ELSE LET sentence == Strip(Head(sentences)) IN
         IF sentence = <<>>
         THEN SentenceLoop(Tail(sentences), out, current_chunk, current_length, mc)
         ELSE LET full == current_length + Len(sentence) > mc /\ current_chunk # <<>>
                  seed == IF full THEN OverlapSeed(current_chunk) ELSE current_chunk
                  seedLen == IF full THEN Len(seed[1]) ELSE current_length
              IN  SentenceLoop(Tail(sentences),
                               IF full THEN Flush(out, current_chunk, SentSep) ELSE out,
                               Append(seed, sentence),
                               seedLen + Len(sentence), mc)

split_long_paragraph(paragraph, mc) ==
    SentenceLoop(SplitSentences(paragraph, <<>>, <<>>), <<>>, <<>>, 0, mc)

\* the loop of chunk_by_paragraphs over the paragraphs left
RECURSIVE ParagraphLoop(_, _, _, _, _)
ParagraphLoop(paragraphs, out, current_chunk, current_length, mc) ==
    IF paragraphs = <<>>
    THEN IF current_chunk # <<>> THEN Flush(out, current_chunk, ParaSep) ELSE out
    ELSE LET para == Strip(Head(paragraphs)) IN
         IF para = <<>>
         THEN ParagraphLoop(Tail(paragraphs), out, current_chunk, current_length, mc)
         ELSE IF Len(para) > mc
         THEN ParagraphLoop(Tail(paragraphs),
                            (IF current_chunk # <<>>
                             THEN Flush(out, current_chunk, ParaSep) ELSE out)
                                \o split_long_paragraph(para, mc),
                            <<>>, 0, mc)
         ELSE LET full == current_length + Len(para) > mc /\ current_chunk # <<>>
                  seed == IF full THEN OverlapSeed(current_chunk) ELSE current_chunk
                  seedLen == IF full THEN Len(seed[1]) ELSE current_length
              IN  ParagraphLoop(Tail(paragraphs),
                                IF full THEN Flush(out, current_chunk, ParaSep) ELSE out,
                                Append(seed, para),
                                seedLen + Len(para), mc)

chunk_by_paragraphs(t, mt) ==
    ParagraphLoop(SplitBlankLines(t, <<>>, <<>>), <<>>, <<>>, 0, max_chars(mt))

\* FitsLimit with the comparison off by one
FitsLimit_Strict(t, mt) == estimate_tokens(t) < mt

\* whether chunk_text returns the text whole
FitsLimit(t, mt) == estimate_tokens(t) <= mt

\* chunk_text without its early return
chunk_text_AlwaysSplit(t, mt) == chunk_by_paragraphs(t, mt)

chunk_text(t, mt) ==
    IF FitsLimit(t, mt) THEN <<Chunk(<<t>>, <<>>)>> ELSE chunk_by_paragraphs(t, mt)

ChunkStr(c) == Join(c.units, c.sep)

\* ---------------------------------------------------------- parse_response
\* The two section markers stand as one character each in a response; they
\* count with their full length.
FMark == "FACTUAL QUESTIONS:"
CMark == "CONCEPTUAL QUESTIONS:"

CharLen(c) == IF c = FMark THEN 18 ELSE IF c = CMark THEN 21 ELSE 1

\* len(s)
RECURSIVE StrLen(_)
StrLen(s) == IF s = <<>> THEN 0 ELSE CharLen(Head(s)) + StrLen(Tail(s))

\* the places of s that hold the character c
Places(s, c) == {i \in 1..Len(s) : s[i] = c}

\* s.split(c): the pieces between the occurrences of the character c
Split(s, c) ==
    LET ps == Places(s, c)
        n == Cardinality(ps)
        at(k) == CHOOSE i \in ps : Cardinality({j \in ps : j < i}) = k - 1
    IN  [k \in 1..(n + 1) |->
            SubSeq(s, IF k = 1 THEN 1 ELSE at(k - 1) + 1,
                      IF k = n + 1 THEN Len(s) ELSE at(k) - 1)]

\* s.split(c, 1)[-1]: what follows the first c, or s when it holds none
AfterFirst(s, c) ==
    IF Places(s, c) = {} THEN s ELSE SubSeq(s, Min(Places(s, c)) + 1, Len(s))

IsDigit(c) == c \in {"0", "1", "2", "3", "4", "5", "6", "7", "8", "9"}

MinQuestionLen == 5

\* line[0].isdigit() or line.startswith('-')
IsCandidate(line) == line # <<>> /\ (IsDigit(line[1]) \/ line[1] = "-")

\* line.split('.', 1)[-1].split(')', 1)[-1].strip()
StripEnumerator(line) == Strip(AfterFirst(AfterFirst(line, "."), ")"))

\* the loop over the lines of one section
RECURSIVE ExtractQuestions(_, _)
ExtractQuestions(lines, out) ==
    IF lines = <<>> THEN out
    ELSE LET line == Strip(Head(lines))
             question == StripEnumerator(line)
             keep == /\ IsCandidate(line)
                     /\ question # <<>>
                     /\ StrLen(question) > MinQuestionLen
         IN  ExtractQuestions(Tail(lines), IF keep THEN Append(out, question) ELSE out)

NoQuestions == [factual |-> <<>>, conceptual |-> <<>>]

parse_response(r) ==
    LET sections == Split(r, CMark)
        factual_section == IF Len(sections) = 2 THEN sections[1] ELSE r
        conceptual_section == IF Len(sections) = 2 THEN sections[2] ELSE <<>>
        factual_part == Last(Split(factual_section, FMark))
    IN  [factual |-> ExtractQuestions(Split(Strip(factual_part), "\n"), <<>>),
         conceptual |-> ExtractQuestions(Split(Strip(conceptual_section), "\n"), <<>>)]

\* An enumerated line: digit, "." or ")", a blank, the question.
EnumLine(d, close, q) == <<d, close, " ">> \o q

QWhat(c) == <<"W", "h", "a", "t", " ", c, "?">>

\* The lines parser inputs are built from: "1. What A?", "2) What B?",
\* "1. f(x) is it A?", "1. Q1", "- U.S. is A?" and a line that is no candidate.
ContentLines ==
    { EnumLine("1", ".", QWhat("A")),
      EnumLine("2", ")", QWhat("B")),
      EnumLine("1", ".", <<"f", "(", "x", ")", " ", "i", "s", " ", "i", "t", " ", "A", "?">>),
      EnumLine("1", ".", <<"Q", "1">>),
      <<"-", " ", "U", ".", "S", ".", " ", "i", "s", " ", "A", "?">>,
      <<"N", "o", "t", "e", " ", "1", ".", " ", "t", "e", "x", "t">> }

\* A response: content lines, headed by the factual marker or not, with a
\* blank line and the conceptual marker before content line p (p = 0: none).
ResponseLines(ls, hasF, p) ==
    (IF hasF THEN << <<FMark>> >> ELSE <<>>)
        \o (IF p = 0 THEN ls
            ELSE SubSeq(ls, 1, p - 1) \o << <<>>, <<CMark>> >> \o SubSeq(ls, p, Len(ls)))

ParseResponses ==
    { Join(ResponseLines(ls, hasF, p), <<"\n">>) :
        <<ls, hasF, p>> \in { x \in SeqsUpTo(ContentLines, MaxLines) \X BOOLEAN \X (0..(MaxLines + 1)) :
                                x[3] <= Len(x[1]) + 1 } }

\* ------------------------------------------------------- merge and output
UpperCase ==
    <<"A", "B", "C", "D", "E", "F", "G", "H", "I", "J", "K", "L", "M",
      "N", "O", "P", "Q", "R", "S", "T", "U", "V", "W", "X", "Y", "Z">>
LowerCase ==
    <<"a", "b", "c", "d", "e", "f", "g", "h", "i", "j", "k", "l", "m",
      "n", "o", "p", "q", "r", "s", "t", "u", "v", "w", "x", "y", "z">>

\* str.lower() on one character
Lower(c) ==
    IF \E k \in 1..Len(UpperCase) : UpperCase[k] = c
    THEN LowerCase[CHOOSE k \in 1..Len(UpperCase) : UpperCase[k] = c]
    ELSE c

LowerStr(s) == [k \in 1..Len(s) |-> Lower(s[k])]

\* str.rstrip('?')
RECURSIVE RStripQuestionMarks(_)
RStripQuestionMarks(s) ==
    IF s # <<>> /\ Last(s) = "?" THEN RStripQuestionMarks(SubSeq(s, 1, Len(s) - 1)) ELSE s

\* q.lower().strip().rstrip('?')
Normalize(q) == RStripQuestionMarks(Strip(LowerStr(q)))

\* the loop of _remove_duplicates
RECURSIVE UniqueLoop(_, _, _)
UniqueLoop(qs, seen, unique) ==
    IF qs = <<>> THEN unique
    ELSE LET normalized == Normalize(Head(qs)) IN
         IF normalized \notin seen
         THEN UniqueLoop(Tail(qs), seen \cup {normalized}, Append(unique, Head(qs)))
         ELSE UniqueLoop(Tail(qs), seen, unique)

remove_duplicates(qs) == UniqueLoop(qs, {}, <<>>)

FactualLimit == 7
ConceptualLimit == 3

\* s[:n]
Take(s, n) == SubSeq(s, 1, IF Len(s) < n THEN Len(s) ELSE n)

\* merge_questions with the two steps in the other order
merge_questions_TruncateFirst(all) ==
    [factual |-> remove_duplicates(Take(all.factual, FactualLimit)),
     conceptual |-> remove_duplicates(Take(all.conceptual, ConceptualLimit))]

\* the tail of generate_from_chunks: deduplicate, then limit
merge_questions(all) ==
    [factual |-> Take(remove_duplicates(all.factual), FactualLimit),
     conceptual |-> Take(remove_duplicates(all.conceptual), ConceptualLimit)]

\* all_questions[...].extend(questions[...])
extend_questions(all, q) ==
    [factual |-> all.factual \o q.factual, conceptual |-> all.conceptual \o q.conceptual]

\* format_output lists questions['factual'][:7] and questions['conceptual'][:3]
format_output(q) ==
    [factual |-> Take(q.factual, FactualLimit),
     conceptual |-> Take(q.conceptual, ConceptualLimit)]

\* ---------------------------------------------- inputs of a pipeline run
Letters == <<"A", "B", "C", "D", "E", "F", "G", "H", "I", "J", "K", "L">>
Digits == <<"1", "2", "3", "4", "5", "6", "7", "8", "9">>

QLower(c) == <<"w", "h", "a", "t", " ", Lower(c)>>

\* the questions about letters a..b, written as "What X?" or as "what x"
RunUpper(a, b) == [k \in 1..(b - a + 1) |-> QWhat(Letters[a + k - 1])]
RunLower(a, b) == [k \in 1..(b - a + 1) |-> QLower(Letters[a + k - 1])]

NumberedLines(qs) == [k \in 1..Len(qs) |-> EnumLine(Digits[k], ".", qs[k])]

\* a response in the format the prompt asks for
FormattedResponse(fqs, cqs) ==
    Join(<< <<FMark>> >> \o NumberedLines(fqs) \o << <<>>, <<CMark>> >> \o NumberedLines(cqs),
         <<"\n">>)

\* What the generation call may answer: seven and three questions; seven
\* and three more, the first two factual ones repeating in lower case; a
\* response that repeats itself; numbered lines without markers; nothing.
MainResponses ==
    { FormattedResponse(RunUpper(1, 7), RunUpper(1, 3)),
      FormattedResponse(RunLower(6, 12), RunLower(3, 5)),
      FormattedResponse(<<QWhat("A"), QLower("A"), QWhat("B")>>, <<QWhat("A"), QLower("A")>>),
      Join(NumberedLines(RunUpper(1, 2)), <<"\n">>),
      <<>> }

ParaLetters == <<"a", "b", "c", "d", "e", "f">>

Paragraph(k) ==
    LET c == ParaLetters[((k - 1) % Len(ParaLetters)) + 1] IN <<c, c, ".">>

\* A cleaned document of n three-letter paragraphs, and one that the
\* removal of citation markers left as four blanks.
ParagraphDoc(n) == Join([k \in 1..n |-> Paragraph(k)], ParaSep)
BlankDoc == <<" ", " ", " ", " ">>
MainDocs == {ParagraphDoc(n) : n \in 0..MaxParagraphs} \cup {BlankDoc}

\* ------------------------------------------------------- document cleaner
\* a str literal as the sequence of its characters
Chars(str) == [i \in 1..Len(str) |-> SubSeq(str, i, i)]

\* str.islower() on one character; of the characters beyond ASCII that the
\* cleaner names, the first is a lowercase letter
IsLower(c) == c = "ï" \/ \E k \in 1..Len(LowerCase) : LowerCase[k] = c
IsUpper(c) == \E k \in 1..Len(UpperCase) : UpperCase[k] = c

\* the regex class \w; of the characters beyond ASCII that the cleaner
\* names, the letter and the fraction belong to it
IsWord(c) == IsLower(c) \/ IsUpper(c) \/ IsDigit(c) \/ c \in {"_", "½"}

\* the regex class [ \t]
IsBlank(c) == c \in {" ", "\t"}

\* pat stands in s at place i
HasAt(s, i, pat) ==
    /\ i + Len(pat) - 1 <= Len(s)
    /\ \A k \in 1..Len(pat) : s[i + k - 1] = pat[k]

\* pat stands in s at place i, letter case ignored (re.IGNORECASE)
MatchAt(s, i, pat) ==
    /\ i + Len(pat) - 1 <= Len(s)
    /\ \A k \in 1..Len(pat) : Lower(s[i + k - 1]) = Lower(pat[k])

\* pat in s
Contains(s, pat) == \E i \in 1..Len(s) : HasAt(s, i, pat)

\* where a greedy \s* tried at place i of s ends: the first place at or
\* after i that holds no whitespace (Len(s) + 1 when there is none)
SkipSpaces(s, i) == Min({j \in i..(Len(s) + 1) : j = Len(s) + 1 \/ ~IsSpace(s[j])})

\* where a greedy \d* tried at place i of s ends
SkipDigits(s, i) == Min({j \in i..(Len(s) + 1) : j = Len(s) + 1 \/ ~IsDigit(s[j])})

\* where a greedy \w* tried at place i of s ends
SkipWord(s, i) == Min({j \in i..(Len(s) + 1) : j = Len(s) + 1 \/ ~IsWord(s[j])})

\* the last place before i that holds no whitespace (0 when there is none)
SpacesBefore(s, i) == Max({j \in 0..(i - 1) : j = 0 \/ ~IsSpace(s[j])})

\* the characters of s at the places K, in order
KeepAt(s, K) ==
    LET kept == SelectSeq([i \in 1..Len(s) |-> i], LAMBDA i : i \in K)
    IN  [k \in 1..Len(kept) |-> s[kept[k]]]

\* _remove_references_section: ref_patterns, each \n\s*<heading>\s*\n
ref_patterns ==
    <<Chars("REFERENCES"), Chars("References"), Chars("BIBLIOGRAPHY"),
      Chars("Bibliography"), Chars("WORKS CITED")>>

\* the places where a match of \n\s*h\s*\n (re.IGNORECASE) can start
HeadingMatches(t, h) ==
    {i \in Places(t, "\n") :
        \E j \in (i + 1)..Len(t) :
            /\ MatchAt(t, j, h)
            /\ SpacesBefore(t, j) < i
            /\ \E k \in (j + Len(h))..(SkipSpaces(t, j + Len(h)) - 1) : t[k] = "\n"}

\* _remove_references_section(text): cut at the leftmost match of the
\* first pattern of the list that matches anywhere
remove_references_section(t) ==
    LET hit == {n \in 1..Len(ref_patterns) : HeadingMatches(t, ref_patterns[n]) # {}}
    IN  IF hit = {} THEN t
        ELSE SubSeq(t, 1, Min(HeadingMatches(t, ref_patterns[Min(hit)])) - 1)

Newline == <<"\n">>

\* _handle_two_column_format: a stripped line shorter than this is skipped
ShortLine == 3

SentenceEnders == {".", "!", "?", ":"}

\* _handle_two_column_format, the loop: the places of the lines it appends
TwoColumnKept(lines) ==
    {i \in 1..Len(lines) :
        LET line == Strip(lines[i])
        IN  /\ Len(line) >= ShortLine
            /\ ~(/\ i < Len(lines)
                 /\ Last(line) \notin SentenceEnders
                 /\ Strip(lines[i + 1]) # <<>>
                 /\ IsLower(Strip(lines[i + 1])[1]))}

\* where the blank stretch after the hyphen at p ends
GapEnd(t, p) == SkipSpaces(t, p + 1)

\* the hyphens at which (\w+)-\s*\n\s*(\w+) can match
Joints(t) ==
    {p \in Places(t, "-") :
        /\ p > 1
        /\ IsWord(t[p - 1])
        /\ GapEnd(t, p) <= Len(t)
        /\ IsWord(t[GapEnd(t, p)])
        /\ \E k \in (p + 1)..(GapEnd(t, p) - 1) : t[k] = "\n"}

\* re.sub scans left to right and its matches do not overlap: the hyphens
\* of J it replaces when the scan stands at the place from
RECURSIVE Replaced(_, _, _)
Replaced(t, J, from) ==
    IF J = {} THEN {}
    ELSE LET p == Min(J)
         IN  IF p - 1 >= from
             THEN {p} \cup Replaced(t, J \ {p}, SkipWord(t, GapEnd(t, p)))
             ELSE Replaced(t, J \ {p}, from)

\* re.sub(r'(\w+)-\s*\n\s*(\w+)', r'\1\2', text)
FixBrokenWords(t) ==
    KeepAt(t, (1..Len(t)) \ UNION {p..(GapEnd(t, p) - 1) : p \in Replaced(t, Joints(t), 1)})

\* _handle_two_column_format(text)
handle_two_column_format(t) ==
    LET lines == Split(t, "\n")
    IN  FixBrokenWords(Join(KeepAt([i \in 1..Len(lines) |-> Strip(lines[i])],
                                   TwoColumnKept(lines)), Newline))

\* a\s+b matches in s at place i (re.IGNORECASE)
TwoWordsAt(s, i, a, b) ==
    /\ MatchAt(s, i, a)
    /\ SkipSpaces(s, i + Len(a)) > i + Len(a)
    /\ MatchAt(s, SkipSpaces(s, i + Len(a)), b)

\* _remove_author_affiliations: re.search of any of author_patterns
author_patterns(line) ==
    \E i \in 1..Len(line) :
        \/ line[i] = "@"
        \/ MatchAt(line, i, Chars(".edu"))
        \/ MatchAt(line, i, Chars(".com"))
        \/ TwoWordsAt(line, i, Chars("Department"), Chars("of"))
        \/ TwoWordsAt(line, i, Chars("University"), Chars("of"))
        \/ TwoWordsAt(line, i, Chars("Institute"), Chars("of"))
        \/ (i + 4 <= Len(line) /\ \A k \in 0..4 : IsDigit(line[i + k]))

ContentKeywords == <<Chars("abstract"), Chars("introduction"), Chars("i. introduction")>>

\* keyword in line.lower().strip() for any keyword of kws
HasKeyword(line, kws) ==
    \E n \in 1..Len(kws) : Contains(Strip(LowerStr(line)), kws[n])

\* _remove_author_affiliations: a stripped line longer than this is a title
TitleLen == 20

\* _remove_author_affiliations(text)
remove_author_affiliations(t) ==
    LET lines == Split(t, "\n")
        starts == {i \in 1..Len(lines) : HasKeyword(lines[i], ContentKeywords)}
        content_start_idx == IF starts = {} THEN 0 ELSE Min(starts) - 1
        titles == {i \in 1..content_start_idx :
                      /\ Len(Strip(lines[i])) > TitleLen
                      /\ ~author_patterns(Strip(lines[i]))}
    IN  IF titles = {} THEN t
        ELSE Join(SubSeq(lines, Max(titles), Len(lines)), Newline)

\* where ^w\s+ ends in s (re.IGNORECASE), 0 when it does not match
AfterWord(s, w) ==
    IF MatchAt(s, 1, w) /\ SkipSpaces(s, Len(w) + 1) > Len(w) + 1
    THEN SkipSpaces(s, Len(w) + 1) ELSE 0

DigitAt(s, i) == i >= 1 /\ i <= Len(s) /\ IsDigit(s[i])

\* ^\[?\d+\]?\s*$ matches s
IsReferenceNumber(s) ==
    LET a == IF s # <<>> /\ s[1] = "[" THEN 2 ELSE 1
        d == SkipDigits(s, a)
        b == IF d <= Len(s) /\ s[d] = "]" THEN d + 1 ELSE d
    IN  d > a /\ SkipSpaces(s, b) = Len(s) + 1

\* ^\s*\d+\s*\|\s*Page matches s
IsPageBar(s) ==
    LET a == SkipSpaces(s, 1)
        d == SkipDigits(s, a)
        b == SkipSpaces(s, d)
    IN  /\ d > a
        /\ b <= Len(s)
        /\ s[b] = "|"
        /\ MatchAt(s, SkipSpaces(s, b + 1), Chars("Page"))

\* _remove_common_headers_footers: re.match of any of skip_patterns
skip_patterns(s) ==
    \/ DigitAt(s, AfterWord(s, Chars("Page")))
    \/ (SkipDigits(s, 1) > 1 /\ SkipSpaces(s, SkipDigits(s, 1)) = Len(s) + 1)
    \/ AfterWord(s, Chars("Copyright")) > 0
    \/ (SkipDigits(s, 1) = 5 /\ SkipSpaces(s, 5) > 5
          /\ MatchAt(s, SkipSpaces(s, 5), Chars("IEEE")))
    \/ AfterWord(s, Chars("IEEE")) > 0
    \/ (AfterWord(s, Chars("Proceedings")) > 0
          /\ MatchAt(s, AfterWord(s, Chars("Proceedings")), Chars("of")))
    \/ IsPageBar(s)
    \/ DigitAt(s, AfterWord(s, Chars("Volume")))
    \/ DigitAt(s, AfterWord(s, Chars("Issue")))
    \/ MatchAt(s, 1, Chars("DOI:"))
    \/ MatchAt(s, 1, Chars("http://"))
    \/ MatchAt(s, 1, Chars("https://"))
    \/ MatchAt(s, 1, Chars("www."))
    \/ IsReferenceNumber(s)

\* _remove_common_headers_footers(text)
remove_common_headers_footers(t) ==
    LET lines == Split(t, "\n")
    IN  Join(KeepAt(lines, {i \in 1..Len(lines) :
                               /\ Strip(lines[i]) # <<>>
                               /\ ~skip_patterns(Strip(lines[i]))}), Newline)

main_sections ==
    <<Chars("abstract"), Chars("introduction"), Chars("background"),
      Chars("related work"), Chars("methodology"), Chars("method"),
      Chars("approach"), Chars("implementation"), Chars("experiments"),
      Chars("results"), Chars("evaluation"), Chars("discussion"),
      Chars("conclusion"), Chars("future work")>>

StopKeywords == <<Chars("references"), Chars("acknowledgment"), Chars("appendix")>>

\* _extract_main_sections without its fallback to the input
extract_main_sections_NoFallback(t) ==
    LET lines == Split(t, "\n")
        headers == {i \in 1..Len(lines) : HasKeyword(lines[i], main_sections)}
        breaks == {i \in 1..Len(lines) :
                      /\ i > Min(headers)
                      /\ i \notin headers
                      /\ HasKeyword(lines[i], StopKeywords)}
    IN  IF headers = {} THEN <<>>
        ELSE Join(SubSeq(lines, Min(headers),
                         IF breaks = {} THEN Len(lines) ELSE Min(breaks) - 1), Newline)

\* _extract_main_sections(text): the lines from the first section header up
\* to the first later line that is no header and holds a stop keyword
extract_main_sections(t) ==
    LET lines == Split(t, "\n")
        headers == {i \in 1..Len(lines) : HasKeyword(lines[i], main_sections)}
        breaks == {i \in 1..Len(lines) :
                      /\ i > Min(headers)
                      /\ i \notin headers
                      /\ HasKeyword(lines[i], StopKeywords)}
    IN  IF headers = {} THEN t
        ELSE Join(SubSeq(lines, Min(headers),
                         IF breaks = {} THEN Len(lines) ELSE Min(breaks) - 1), Newline)

\* re.sub(r'\n{3,}', '\n\n', text)
SquashNewlines(t) ==
    KeepAt(t, {i \in 1..Len(t) :
                  ~(i > 2 /\ t[i] = "\n" /\ t[i - 1] = "\n" /\ t[i - 2] = "\n")})

\* re.sub(r'[ \t]+', ' ', text)
SquashBlanks(t) ==
    KeepAt([i \in 1..Len(t) |-> IF IsBlank(t[i]) THEN " " ELSE t[i]],
           {i \in 1..Len(t) : ~(i > 1 /\ IsBlank(t[i]) /\ IsBlank(t[i - 1]))})

\* '\n'.join(line.strip() for line in text.split('\n'))
StripLines(t) ==
    LET lines == Split(t, "\n")
    IN  Join([i \in 1..Len(lines) |-> Strip(lines[i])], Newline)

\* text.replace(pat, ''), for a pat that cannot overlap itself
RemoveAll(t, pat) ==
    KeepAt(t, (1..Len(t)) \ UNION {i..(i + Len(pat) - 1) : i \in {j \in 1..Len(t) : HasAt(t, j, pat)}})

OcrDebris == Chars("ï¿½")

\* where (?:,\s*\d+)*\] ends when tried at d, 0 when it does not match
RECURSIVE CitationTail(_, _)
CitationTail(t, d) ==
    IF d > Len(t) THEN 0
    ELSE IF t[d] = "]" THEN d
    ELSE IF t[d] = "," /\ SkipDigits(t, SkipSpaces(t, d + 1)) > SkipSpaces(t, d + 1)
    THEN CitationTail(t, SkipDigits(t, SkipSpaces(t, d + 1)))
    ELSE 0

\* where \[\d+(?:,\s*\d+)*\] ends when tried at i, 0 when it does not match
CitationEnd(t, i) ==
    IF t[i] = "[" /\ SkipDigits(t, i + 1) > i + 1
    THEN CitationTail(t, SkipDigits(t, i + 1)) ELSE 0

\* re.sub(r'\[\d+(?:,\s*\d+)*\]', '', text)
RemoveCitations(t) ==
    KeepAt(t, (1..Len(t)) \ UNION {i..CitationEnd(t, i) : i \in {j \in 1..Len(t) : CitationEnd(t, j) > 0}})

\* clean_text, step 6: general cleaning
GeneralCleaning(t) ==
    RemoveCitations(RemoveAll(Strip(StripLines(SquashBlanks(SquashNewlines(t)))), OcrDebris))

\* clean_text() for raw_text = t
clean_text(t) ==
    GeneralCleaning(extract_main_sections(remove_common_headers_footers(
        remove_author_affiliations(handle_two_column_format(
            remove_references_section(t))))))

\* the lines cleaner inputs are built from
CleanerLines ==
    {<<>>, Chars(" References "), Chars("Bibliography"), Chars("Abstract"),
     Chars("Appendix A: Methodology"), Chars("we found [1]"), Chars("It works."),
     Chars("co-")}

CleanerTexts == {Join(ls, Newline) : ls \in SeqsUpTo(CleanerLines, MaxCleanLines)}

\* no DocumentProcessor at work
CleanerIdle ==
    /\ raw_text = <<>>
    /\ stage = "none"
    /\ stage_text = <<>>
    /\ cleaned_text = <<>>
    /\ recleaned_text = <<>>

\* ------------------------------------------------- specification: chunker
InitChunker ==
    /\ pc = "chunk"
    /\ text \in ChunkTexts
    /\ max_tokens \in 0..MaxTokensBound
    /\ chunks = <<>>
    /\ chunkUnits = <<>>
    /\ response_text = <<>>
    /\ questions = NoQuestions
    /\ all_questions = NoQuestions
    /\ results = <<>>
    /\ calls = <<>>
    /\ output = NoQuestions
    /\ CleanerIdle

ChunkText ==
    /\ pc = "chunk"
    /\ LET cs == chunk_text(text, max_tokens) IN
         /\ chunks' = [k \in 1..Len(cs) |-> ChunkStr(cs[k])]
         /\ chunkUnits' = [k \in 1..Len(cs) |-> cs[k].units]
    /\ pc' = "chunked"
    /\ UNCHANGED <<text, max_tokens, response_text, questions, mergeVars>>
    /\ UNCHANGED cleanerVars

NextChunker == ChunkText

SpecChunker == InitChunker /\ [][NextChunker]_vars

\* -------------------------------------------------- specification: parser
InitParser ==
    /\ pc = "parse"
    /\ response_text \in ParseResponses
    /\ questions = NoQuestions
    /\ text = <<>>
    /\ max_tokens = 0
    /\ chunks = <<>>
    /\ chunkUnits = <<>>
    /\ all_questions = NoQuestions
    /\ results = <<>>
    /\ calls = <<>>
    /\ output = NoQuestions
    /\ CleanerIdle

ParseResponse ==
    /\ pc = "parse"
    /\ questions' = parse_response(response_text)
    /\ pc' = "parsed"
    /\ UNCHANGED <<chunkerVars, response_text, mergeVars>>
    /\ UNCHANGED cleanerVars

NextParser == ParseResponse

SpecParser == InitParser /\ [][NextParser]_vars

\* ------------------------------------------------ specification: pipeline
\* main(): chunk the processed document, generate, format.
Init ==
    /\ pc = "main"
    /\ text \in MainDocs
    /\ max_tokens \in 0..MaxTokensBound
    /\ chunks = <<>>
    /\ chunkUnits = <<>>
    /\ response_text = <<>>
    /\ questions = NoQuestions
    /\ all_questions = NoQuestions
    /\ results = <<>>
    /\ calls = <<>>
    /\ output = NoQuestions
    /\ CleanerIdle

ChunkDocument ==
    /\ pc = "main"
    /\ LET cs == chunk_text(text, max_tokens) IN
         /\ chunks' = [k \in 1..Len(cs) |-> ChunkStr(cs[k])]
         /\ chunkUnits' = [k \in 1..Len(cs) |-> cs[k].units]
    /\ pc' = "generate"
    /\ UNCHANGED <<text, max_tokens, response_text, questions, mergeVars>>
    /\ UNCHANGED cleanerVars

\* whether main takes the generate_from_text branch
SinglePath == Len(chunks) = 1

Call(t, k, n) == [document_text |-> t, chunk_num |-> k, total_chunks |-> n]

\* main -> generate_from_text(document_text): the call answers
GenerateFromText ==
    /\ pc = "generate"
    /\ SinglePath
    /\ \E r \in MainResponses :
         /\ response_text' = r
         /\ questions' = parse_response(r)
    /\ calls' = Append(calls, Call(text, 0, 0))
    /\ pc' = "format"
    /\ UNCHANGED <<chunkerVars, all_questions, results, output>>
    /\ UNCHANGED cleanerVars

\* GenerateFromChunk sending every chunk without its number
GenerateFromChunk_Unlabelled ==
    /\ pc = "generate"
    /\ ~SinglePath
    /\ Len(results) < Len(chunks)
    /\ \E r \in MainResponses :
         /\ response_text' = r
         /\ results' = Append(results, parse_response(r))
         /\ all_questions' = extend_questions(all_questions, parse_response(r))
    /\ calls' = Append(calls, Call(chunks[Len(results) + 1], 0, 0))
    /\ UNCHANGED <<pc, chunkerVars, questions, output>>
    /\ UNCHANGED cleanerVars

\* generate_from_chunks, one turn of its loop: the call for the next chunk
\* answers and the lists are extended
GenerateFromChunk ==
    /\ pc = "generate"
    /\ ~SinglePath
    /\ Len(results) < Len(chunks)
    /\ \E r \in MainResponses :
         /\ response_text' = r
         /\ results' = Append(results, parse_response(r))
         /\ all_questions' = extend_questions(all_questions, parse_response(r))
    /\ calls' = Append(calls, Call(chunks[Len(results) + 1], Len(results) + 1, Len(chunks)))
    /\ UNCHANGED <<pc, chunkerVars, questions, output>>
    /\ UNCHANGED cleanerVars

\* the generation call raises: generate_from_text re-raises, main exits
GenerateFails ==
    /\ pc = "generate"
    /\ \/ SinglePath /\ calls' = Append(calls, Call(text, 0, 0))
       \/ /\ ~SinglePath
          /\ Len(results) < Len(chunks)
          /\ calls' = Append(calls, Call(chunks[Len(results) + 1], Len(results) + 1, Len(chunks)))
    /\ pc' = "error"
    /\ UNCHANGED <<chunkerVars, response_text, questions, all_questions, results, output>>
    /\ UNCHANGED cleanerVars

\* generate_from_chunks after its loop
MergeChunks ==
    /\ pc = "generate"
    /\ ~SinglePath
    /\ Len(results) = Len(chunks)
    /\ questions' = merge_questions(all_questions)
    /\ pc' = "format"
    /\ UNCHANGED <<chunkerVars, response_text, all_questions, results, calls, output>>
    /\ UNCHANGED cleanerVars

FormatOutput ==
    /\ pc = "format"
    /\ output' = format_output(questions)
    /\ pc' = "done"
    /\ UNCHANGED <<chunkerVars, response_text, questions, all_questions, results, calls>>
    /\ UNCHANGED cleanerVars

Next ==
    \/ ChunkDocument
    \/ GenerateFromText
    \/ GenerateFromChunk
    \/ GenerateFails
    \/ MergeChunks
    \/ FormatOutput

Spec == Init /\ [][Next]_vars

\* ---------------------------------------------------------- chunker claims
Chunked == pc = "chunked"

\* C1: for max_tokens >= 1 every chunk's estimated token count is at most
\* max_tokens, unless the chunk is a single sentence longer than max_tokens * 4.
C1_ChunkWithinLimit ==
    (Chunked /\ max_tokens >= 1) =>
        \A k \in 1..Len(chunks) :
            \/ Len(chunks[k]) \div 4 <= max_tokens
            \/ /\ Len(chunkUnits[k]) = 1
               /\ Len(chunkUnits[k][1]) > max_tokens * 4

\* C2: a text whose estimated token count is at most max_tokens comes back
\* as exactly one chunk, equal to the text.
C2_ShortTextSingleChunk ==
    (Chunked /\ Len(text) \div 4 <= max_tokens) => chunks = <<text>>

\* a short text with a leading blank and a blank line in it came back whole
C2_Witness ==
    /\ Chunked
    /\ Len(text) \div 4 <= max_tokens
    /\ Len(text) >= 4
    /\ text[1] = " "
    /\ \E i \in 1..(Len(text) - 1) : text[i] = "\n" /\ text[i + 1] = "\n"
    /\ chunks = <<text>>

\* C3 as stated: the empty string gives no chunk at all.
C3_EmptyGivesNoChunk == (Chunked /\ text = <<>>) => chunks = <<>>

\* C3 amended: the empty string gives exactly one chunk, the empty string,
\* for every max_tokens >= 0.
C3_EmptyGivesOneEmptyChunk == (Chunked /\ text = <<>>) => chunks = << <<>> >>

C3_Witness == Chunked /\ text = <<>> /\ max_tokens = 0 /\ Len(chunks) = 1

\* C4: a non-empty text gives at least one chunk.
C4_NonEmptyGivesChunk == (Chunked /\ Len(text) >= 1) => Len(chunks) >= 1

\* C5: when there are several chunks, at every boundary the last unit of a
\* chunk is the first unit of the next.
C5_AdjacentShareOverlap ==
    (Chunked /\ Len(chunks) > 1) =>
        \A k \in 1..(Len(chunks) - 1) :
            Last(chunkUnits[k]) = chunkUnits[k + 1][1]

\* The non-empty trimmed paragraphs of a text in order, an over-long
\* paragraph standing as its non-empty trimmed sentences.
NonEmptyTrimmed(ss) == SelectSeq([i \in 1..Len(ss) |-> Strip(ss[i])], LAMBDA u : u # <<>>)

InputUnits(t, mt) ==
    LET paras == NonEmptyTrimmed(SplitBlankLines(t, <<>>, <<>>))
        unitsOf(p) == IF Len(p) > mt * 4
                      THEN NonEmptyTrimmed(SplitSentences(p, <<>>, <<>>))
                      ELSE <<p>>
    IN  Flatten([i \in 1..Len(paras) |-> unitsOf(paras[i])])

\* The units of all chunks in order, less at each boundary the leading unit
\* that repeats the last unit of the chunk before.
RECURSIVE WithoutOverlap(_, _)
WithoutOverlap(us, k) ==
    IF k > Len(us) THEN <<>>
    ELSE (IF k > 1 /\ us[k][1] = Last(us[k - 1]) THEN Tail(us[k]) ELSE us[k])
             \o WithoutOverlap(us, k + 1)

\* C6: for a text that is split, the chunks' units less the boundary
\* duplicates are the input's units in their order.
C6_ChunksReconstructInput ==
    (Chunked /\ Len(text) \div 4 > max_tokens) =>
        WithoutOverlap(chunkUnits, 1) = InputUnits(text, max_tokens)

\* ----------------------------------------------------- orchestrator claims
\* lower-casing and stripping trailing "?"
FoldQuestion(q) == RStripQuestionMarks(LowerStr(q))

NoTwoAlike(qs) ==
    \A i, j \in 1..Len(qs) : i < j => FoldQuestion(qs[i]) # FoldQuestion(qs[j])

Generated == pc \in {"format", "done"}

\* C7: in the final question set of a run, on either path, no two factual
\* and no two conceptual entries are equal after lower-casing and stripping
\* trailing "?".
C7_FinalSetHasNoDuplicates ==
    /\ Generated => NoTwoAlike(questions.factual) /\ NoTwoAlike(questions.conceptual)
    /\ pc = "done" => NoTwoAlike(output.factual) /\ NoTwoAlike(output.conceptual)

\* The entries of qs that are the first of their kind, in their order.
FirstOccurrences(qs) ==
    LET kept == {i \in 1..Len(qs) :
                    \A j \in 1..(i - 1) : FoldQuestion(qs[j]) # FoldQuestion(qs[i])}
        at(k) == CHOOSE i \in kept : Cardinality({j \in kept : j < i}) = k - 1
    IN  [k \in 1..Cardinality(kept) |-> qs[at(k)]]

FactualOf(rs) == Flatten([k \in 1..Len(rs) |-> rs[k].factual])
ConceptualOf(rs) == Flatten([k \in 1..Len(rs) |-> rs[k].conceptual])

\* C8: generate_from_chunks returns, per category, the first 7 resp. 3 of
\* the per-chunk lists concatenated in chunk order with only the first
\* occurrence of each question kept, as written.
C8_MergeIsDedupThenTruncate ==
    (Generated /\ ~SinglePath) =>
        /\ questions.factual = Take(FirstOccurrences(FactualOf(results)), 7)
        /\ questions.conceptual = Take(FirstOccurrences(ConceptualOf(results)), 3)

\* two chunks or more gave repeats and more than seven distinct factual
\* questions; seven came back, in both spellings
C8_Witness ==
    /\ pc = "done"
    /\ Len(results) >= 2
    /\ Len(FirstOccurrences(FactualOf(results))) > 7
    /\ Len(FirstOccurrences(FactualOf(results))) < Len(FactualOf(results))
    /\ Len(FirstOccurrences(ConceptualOf(results))) > 3
    /\ Len(questions.factual) = 7
    /\ Len(questions.conceptual) = 3
    /\ \E i, j \in 1..7 : questions.factual[i][1] = "W" /\ questions.factual[j][1] = "w"

Parsed == pc = "parsed"

\* C9: a response with neither marker gives no factual and no conceptual
\* question.
C9_NoMarkersNoQuestions ==
    (Parsed /\ Places(response_text, FMark) = {} /\ Places(response_text, CMark) = {})
        => questions = NoQuestions

\* An enumerated line: a digit first, a "." or ")" somewhere after.
Closers(line) == {i \in 1..Len(line) : line[i] \in {".", ")"}}
IsEnumerated(line) == line # <<>> /\ IsDigit(line[1]) /\ Closers(line) # {}

\* the line less its enumerator, up to the first "." or ")"
EnumeratedText(line) == Strip(SubSeq(line, Min(Closers(line)) + 1, Len(line)))

\* the factual marker, n - 1 enumerated lines, a blank line, the conceptual
\* marker, enumerated lines
HasForm(lines, n) ==
    /\ n >= 2
    /\ Len(lines) >= n + 3
    /\ lines[1] = <<FMark>>
    /\ \A i \in 2..n : IsEnumerated(lines[i])
    /\ lines[n + 1] = <<>>
    /\ lines[n + 2] = <<CMark>>
    /\ \A i \in (n + 3)..Len(lines) : IsEnumerated(lines[i])

\* C10: for a response of that form, factual is the texts of the first
\* section's lines in order and conceptual those of the second's.
C10_FormattedResponseParsed ==
    Parsed =>
        LET lines == Split(response_text, "\n") IN
        \A n \in 2..Len(lines) :
            HasForm(lines, n) =>
                /\ questions.factual = [k \in 1..(n - 1) |-> EnumeratedText(lines[k + 1])]
                /\ questions.conceptual =
                       [k \in 1..(Len(lines) - n - 2) |-> EnumeratedText(lines[k + n + 2])]

\* ------------------------------------------------- specification: cleaner
\* DocumentProcessor: each stage of clean_text applied to the raw text,
\* clean_text itself, and clean_text run again on what it returned.
InitCleaner ==
    /\ pc = "raw"
    /\ raw_text \in CleanerTexts
    /\ stage = "none"
    /\ stage_text = <<>>
    /\ cleaned_text = <<>>
    /\ recleaned_text = <<>>
    /\ text = <<>>
    /\ max_tokens = 0
    /\ chunks = <<>>
    /\ chunkUnits = <<>>
    /\ response_text = <<>>
    /\ questions = NoQuestions
    /\ all_questions = NoQuestions
    /\ results = <<>>
    /\ calls = <<>>
    /\ output = NoQuestions

\* _remove_references_section(raw_text)
RemoveReferencesSection ==
    /\ pc = "raw"
    /\ pc' = "staged"
    /\ stage' = "references"
    /\ stage_text' = remove_references_section(raw_text)
    /\ UNCHANGED <<raw_text, cleaned_text, recleaned_text>>
    /\ UNCHANGED <<chunkerVars, response_text, questions, mergeVars>>

\* _handle_two_column_format(raw_text)
HandleTwoColumnFormat ==
    /\ pc = "raw"
    /\ pc' = "staged"
    /\ stage' = "two_column"
    /\ stage_text' = handle_two_column_format(raw_text)
    /\ UNCHANGED <<raw_text, cleaned_text, recleaned_text>>
    /\ UNCHANGED <<chunkerVars, response_text, questions, mergeVars>>

\* _remove_author_affiliations(raw_text)
RemoveAuthorAffiliations ==
    /\ pc = "raw"
    /\ pc' = "staged"
    /\ stage' = "authors"
    /\ stage_text' = remove_author_affiliations(raw_text)
    /\ UNCHANGED <<raw_text, cleaned_text, recleaned_text>>
    /\ UNCHANGED <<chunkerVars, response_text, questions, mergeVars>>

\* _remove_common_headers_footers(raw_text)
RemoveCommonHeadersFooters ==
    /\ pc = "raw"
    /\ pc' = "staged"
    /\ stage' = "headers"
    /\ stage_text' = remove_common_headers_footers(raw_text)
    /\ UNCHANGED <<raw_text, cleaned_text, recleaned_text>>
    /\ UNCHANGED <<chunkerVars, response_text, questions, mergeVars>>

\* _extract_main_sections(raw_text)
ExtractMainSections ==
    /\ pc = "raw"
    /\ pc' = "staged"
    /\ stage' = "sections"
    /\ stage_text' = extract_main_sections(raw_text)
    /\ UNCHANGED <<raw_text, cleaned_text, recleaned_text>>
    /\ UNCHANGED <<chunkerVars, response_text, questions, mergeVars>>

\* clean_text()
CleanText ==
    /\ pc = "raw"
    /\ pc' = "cleaned"
    /\ cleaned_text' = clean_text(raw_text)
    /\ UNCHANGED <<raw_text, stage, stage_text, recleaned_text>>
    /\ UNCHANGED <<chunkerVars, response_text, questions, mergeVars>>

\* a second DocumentProcessor whose raw_text is the first one's cleaned_text
CleanAgain ==
    /\ pc = "cleaned"
    /\ pc' = "recleaned"
    /\ recleaned_text' = clean_text(cleaned_text)
    /\ UNCHANGED <<raw_text, stage, stage_text, cleaned_text>>
    /\ UNCHANGED <<chunkerVars, response_text, questions, mergeVars>>

NextCleaner ==
    \/ RemoveReferencesSection
    \/ HandleTwoColumnFormat
    \/ RemoveAuthorAffiliations
    \/ RemoveCommonHeadersFooters
    \/ ExtractMainSections
    \/ CleanText
    \/ CleanAgain

SpecCleaner == InitCleaner /\ [][NextCleaner]_vars

\* the calls issued so far are those for chunks 1..Len(calls), each with
\* its number and the total, and all but perhaps the last have answered
CallsInOrder ==
    /\ Len(calls) <= Len(chunks)
    /\ \A k \in 1..Len(calls) : calls[k] = Call(chunks[k], k, Len(chunks))
    /\ Len(results) <= Len(calls)
    /\ Len(calls) <= Len(results) + 1

\* C13: generate_from_chunks calls once per chunk, in chunk order, chunk k
\* as "chunk k of N", the next only after the last has answered; a failed
\* call ends the run at once with no question set and no later call; a
\* run that succeeds has made exactly N calls.
C13_CallsSequentialFailFast ==
    /\ [](~SinglePath =>
            /\ CallsInOrder
            /\ pc = "generate" => Len(calls) = Len(results)
            /\ pc = "error" =>
                  /\ Len(calls) = Len(results) + 1
                  /\ questions = NoQuestions
                  /\ output = NoQuestions
            /\ Generated => Len(calls) = Len(chunks) /\ Len(results) = Len(chunks))
    /\ [][pc = "error" => UNCHANGED <<pc, calls, results, questions, output>>]_vars

\* the call for chunk 2 of 3 failed: chunk 3 was never sent
C13_Witness ==
    /\ pc = "error"
    /\ Len(chunks) = 3
    /\ Len(calls) = 2
    /\ calls[2] = Call(chunks[2], 2, 3)
    /\ Len(results) = 1

\* ----------------------------------------------------------------- cleaner
Lines(t) == Split(t, "\n")

IsPrefix(a, b) == Len(a) <= Len(b) /\ SubSeq(b, 1, Len(a)) = a

StageDone(s) == pc = "staged" /\ stage = s

HeadingNames == {Chars("references"), Chars("bibliography"), Chars("works cited")}

\* the lines that are a reference heading, letter case and surrounding
\* whitespace ignored
HeadingLines(t) == {i \in 1..Len(Lines(t)) : LowerStr(Strip(Lines(t)[i])) \in HeadingNames}

\* the lines before the first reference heading
BeforeHeading(t) == Join(SubSeq(Lines(t), 1, Min(HeadingLines(t)) - 1), Newline)

\* C11: when the raw text has a line that is a reference heading, reference
\* truncation returns nothing from the first such line onward, and the
\* cleaned text holds no heading line.
C11_NothingFromHeadingOnward ==
    HeadingLines(raw_text) # {} =>
        /\ StageDone("references") => IsPrefix(stage_text, BeforeHeading(raw_text))
        /\ pc = "cleaned" => HeadingLines(cleaned_text) = {}

\* C12: cleaning what clean_text returned changes nothing.
C12_CleanIdempotent == pc = "recleaned" => recleaned_text = cleaned_text

\* line i of lines, trimmed, is long enough, ends mid-sentence and is
\* followed by a line that begins with a lowercase letter
IsWrapped(lines, i) ==
    /\ i < Len(lines)
    /\ Len(Strip(lines[i])) >= ShortLine
    /\ Last(Strip(lines[i])) \notin SentenceEnders
    /\ Strip(lines[i + 1]) # <<>>
    /\ IsLower(Strip(lines[i + 1])[1])

\* a line without the hyphen of a broken word at its end
Unhyphened(line) ==
    IF line # <<>> /\ Last(line) = "-" THEN SubSeq(line, 1, Len(line) - 1) ELSE line

\* C14: the text of every wrapped line of the input is still found in what
\* column-merge repair returns.
C14_WrappedLineKept ==
    StageDone("two_column") =>
        \A i \in 1..Len(Lines(raw_text)) :
            IsWrapped(Lines(raw_text), i) =>
                Contains(stage_text, Unhyphened(Strip(Lines(raw_text)[i])))

SectionLines(t) == {i \in 1..Len(Lines(t)) : HasKeyword(Lines(t)[i], main_sections)}

\* the lines after the first section line that hold a stop keyword
StopLines(t) ==
    {i \in 1..Len(Lines(t)) :
        i > Min(SectionLines(t)) /\ HasKeyword(Lines(t)[i], StopKeywords)}

\* C15: main-section extraction returns the lines from the first section
\* line up to, not including, the first later line that holds a stop
\* keyword, whether or not that line also holds a section name.
C15_StopLineEndsRetention ==
    (StageDone("sections") /\ SectionLines(raw_text) # {} /\ StopLines(raw_text) # {}) =>
        stage_text = Join(SubSeq(Lines(raw_text), Min(SectionLines(raw_text)),
                                 Min(StopLines(raw_text)) - 1), Newline)

\* the input holds something the stage named s reacts to
Triggered(s, t) ==
    LET lines == Lines(t)
    IN  CASE s = "references" -> HeadingLines(t) # {}
          [] s = "two_column" ->
                \/ \E i \in 1..Len(lines) : Len(Strip(lines[i])) < ShortLine
                \/ \E i \in 1..Len(lines) : IsWrapped(lines, i)
                \/ Joints(t) # {}
          [] s = "authors" -> \E i \in 1..Len(lines) : HasKeyword(lines[i], ContentKeywords)
          [] s = "headers" ->
                \E i \in 1..Len(lines) :
                    Strip(lines[i]) = <<>> \/ skip_patterns(Strip(lines[i]))
          [] s = "sections" -> SectionLines(t) # {}

=============================================================================
